---- MODULE Spec2Model ----
(***************************************************************************)
(* Redemption core of the student-offer backend: the entitlement service  *)
(* (claim, prove, validate, confirm, void), the periodic expiry function   *)
(* of the schema, the daily unique index, and the key-value store the      *)
(* service keeps proof tokens and daily-claim markers in.                  *)
(*                                                                         *)
(* Every call the service makes to the relational store or to the          *)
(* key-value store is one atomic step; between two calls of one handler    *)
(* other handlers (other requests, other replicas), the sweep and the      *)
(* clock may act.  Time is in whole seconds.  Money held by the service    *)
(* is in hundredths of a cent (so a percentage of a whole-cent bill is     *)
(* exact); money held by a DECIMAL(10,2) column is in whole cents.         *)
(***************************************************************************)
EXTENDS Integers, Sequences, FiniteSets, TLC

\* ---------------------------------------------------------------- bounds
MaxEnt == 2
MaxTok == 2
MaxRed == 2
MaxTicks == 3
ConcTicks == 1
StartTime == 79199

\* ------------------------------------------------------ program constants
QR_PROOF_TOKEN_TTL_SECONDS == 30
VOID_WINDOW_HOURS == 2
MAX_DAILY_CLAIMS_PER_OFFER == 1
SecondsPerDay == 24 * 60 * 60
SecondsPerHour == 60 * 60
VELOCITY_LIMIT == 10
VELOCITY_WINDOW == 60
DAILY_LIMIT == 150
DAILY_WINDOW == 86400

Procs == {"p1", "p2"}
Users == {"u1"}
OfferIds == {"o1"}
\* the users who may call Prove: the owner and another user
Callers == Users \cup {"u2"}
NULL == <<>>
Some(x) == <<x>>
IsSet(opt) == opt # <<>>
Val(opt) == opt[1]

\* clock steps: one second, the token TTL, the void window
Steps == {1, QR_PROOF_TOKEN_TTL_SECONDS, VOID_WINDOW_HOURS * SecondsPerHour}

\* bills a merchant may enter (hundredths of a cent; 500000 = 50.00)
Bills == {500000}
\* final amounts a merchant may declare
Finals == {400000}

VARIABLES now, ticks, ents, reds, offers, kvTok, kvMark, events,
          pc, loc, nextTok, issued, found, passes, claimDone,
          lost, kvVel, kvDaily, admitted, answer

vars == <<now, ticks, ents, reds, offers, kvTok, kvMark, events,
          pc, loc, nextTok, issued, found, passes, claimDone,
          lost, kvVel, kvDaily, admitted, answer>>

\* the state of the rate limiter
limVars == <<kvVel, kvDaily, admitted, answer>>

\* ------------------------------------------------------------- calendar
Day(t) == t \div SecondsPerDay
\* datetime.combine(date, time(23, 59, 59))
EndOfDay(d) == d * SecondsPerDay + (SecondsPerDay - 1)
StartOfDay(d) == d * SecondsPerDay
\* datetime.time(): seconds since midnight
TimeOfDay(t) == t % SecondsPerDay
\* datetime.weekday(): 0 = Monday; day 0 of the model is a Monday
Weekday(t) == Day(t) % 7

\* ------------------------------------------------------- state machine
States == {"active", "pending_confirmation", "used", "voided", "expired"}

\* a table in which a void gives the entitlement back (USED -> ACTIVE)
VALID_TRANSITIONS_VoidRestores ==
    [s \in States |->
        CASE s = "active" -> {"pending_confirmation", "expired"}
          [] s = "pending_confirmation" -> {"used", "active", "expired"}
          [] s = "used" -> {"voided", "active"}
          [] s = "voided" -> {}
          [] s = "expired" -> {}]

VALID_TRANSITIONS ==
    [s \in States |->
        CASE s = "active" -> {"pending_confirmation", "expired"}
          [] s = "pending_confirmation" -> {"used", "active", "expired"}
          [] s = "used" -> {"voided"}
          [] s = "voided" -> {}
          [] s = "expired" -> {}]

can_transition(from, to) ==
    IF from \notin DOMAIN VALID_TRANSITIONS THEN FALSE
    ELSE to \in VALID_TRANSITIONS[from]

is_terminal_state(s) == Cardinality(VALID_TRANSITIONS[s]) = 0

\* a check of the state alone
can_generate_qr_NoExpiry(state, expires_at, t) ==
    IF state # "active" THEN "INVALID_STATE" ELSE "OK"

can_generate_qr(state, expires_at, t) ==
    IF state # "active" THEN "INVALID_STATE"
    ELSE IF t >= expires_at THEN "EXPIRED"
    ELSE "OK"

can_validate(state) == state = "active"

\* a check that also lets a USED entitlement through
can_confirm_OrUsed(state) == state \in {"pending_confirmation", "used"}

can_confirm(state) == state = "pending_confirmation"

\* a void window that closes at the deadline itself
can_void_Strict(state, used_at, t) ==
    IF state # "used" THEN "INVALID_STATE"
    ELSE IF t >= used_at + VOID_WINDOW_HOURS * SecondsPerHour THEN "VOID_WINDOW_EXPIRED"
    ELSE "OK"

can_void(state, used_at, t) ==
    IF state # "used" THEN "INVALID_STATE"
    ELSE IF t > used_at + VOID_WINDOW_HOURS * SecondsPerHour THEN "VOID_WINDOW_EXPIRED"
    ELSE "OK"


\* ------------------------------------------------------------ offers
\* an offer row as the catalogue holds it; prices in hundredths of a cent;
\* max_total_claims = 0, valid_days_of_week = {} and time_window = NULL are
\* the absent (falsy) values of the optional columns
OfferRow(type) ==
    [is_active |-> TRUE, offer_type |-> type, pct |-> 20,
     original_price |-> IF type = "bundle" THEN 1000000 ELSE 750000,
     discounted_price |-> 750000,
     valid_from |-> 0, valid_until |-> 10 * SecondsPerDay,
     time_window |-> NULL, valid_days_of_week |-> {},
     max_total_claims |-> 0, total_claims |-> 0]

\* an offer valid from 09:00:00 to 17:00:00 only
WindowedOffer ==
    [OfferRow("percentage") EXCEPT
        !.time_window = Some(<<9 * SecondsPerHour, 17 * SecondsPerHour>>)]

\* an offer that has been switched off
InactiveOffer == [OfferRow("percentage") EXCEPT !.is_active = FALSE]

OfferConfigs ==
    {OfferRow("percentage"), OfferRow("bogo"), OfferRow("bundle"),
     WindowedOffer, InactiveOffer}

\* the time-of-day block of claim_entitlement: the ValueError raised
\* for a time outside the window is raised inside the try whose
\* except Exception clause logs a warning and continues
TimeOfDayCheck(offer, t) ==
    IF ~IsSet(offer.time_window) THEN "OK"
    ELSE IF ~(Val(offer.time_window)[1] <= TimeOfDay(t)
              /\ TimeOfDay(t) <= Val(offer.time_window)[2])
    THEN "OK"
    ELSE "OK"

\* the checks of claim_entitlement between loading the offer and the insert
OfferEligibility(offer, t) ==
    IF ~offer.is_active THEN "NOT_ACTIVE"
    ELSE IF t < offer.valid_from \/ t > offer.valid_until THEN "NOT_VALID"
    ELSE IF TimeOfDayCheck(offer, t) # "OK" THEN "NOT_VALID_TIME"
    ELSE IF offer.valid_days_of_week # {} /\ Weekday(t) \notin offer.valid_days_of_week
         THEN "NOT_VALID_DAY"
    ELSE IF offer.max_total_claims # 0 /\ offer.total_claims >= offer.max_total_claims
         THEN "CLAIM_LIMIT"
    ELSE "OK"

\* ------------------------------------------------------------ savings
\* (discount, final) in hundredths of a cent
_calculate_savings(offer, total_bill, discounted_amount) ==
    IF IsSet(discounted_amount)
    THEN <<total_bill - Val(discounted_amount), Val(discounted_amount)>>
    ELSE IF offer.offer_type = "percentage"
    THEN <<(total_bill * offer.pct) \div 100,
           total_bill - (total_bill * offer.pct) \div 100>>
    ELSE IF offer.offer_type = "bogo"
    THEN <<offer.original_price, total_bill - offer.original_price>>
    ELSE IF offer.offer_type = "bundle"
    THEN <<offer.original_price - offer.discounted_price, offer.discounted_price>>
    ELSE <<0, total_bill>>

\* a value written to a DECIMAL(10,2) column: rounded to whole cents,
\* halves away from zero; the result is in cents
ToNumeric2(x) ==
    IF x >= 0 THEN (x + 50) \div 100 ELSE 0 - ((0 - x + 50) \div 100)

\* ------------------------------------------------------- store helpers
EntIds == 1..Len(ents)

\* idx_entitlements_user_offer_day: would the rows violate the partial
\* unique index on (user_id, offer_id, DATE(claimed_at)) WHERE state != 'voided'
IndexViolated(rows) ==
    \E i, j \in 1..Len(rows) :
        /\ i < j
        /\ rows[i].state # "voided" /\ rows[j].state # "voided"
        /\ rows[i].user_id = rows[j].user_id
        /\ rows[i].offer_id = rows[j].offer_id
        /\ Day(rows[i].claimed_at) = Day(rows[j].claimed_at)

\* rows the daily-limit query of _check_daily_limit returns at time t
DailyRows(u, o, t) ==
    {i \in EntIds :
        /\ ents[i].user_id = u /\ ents[i].offer_id = o
        /\ ents[i].claimed_at >= StartOfDay(Day(t))
        /\ ents[i].claimed_at <= EndOfDay(Day(t))
        /\ ents[i].state # "voided"}

\* ----------------------------------------------------- key-value store
\* a key holds its value until its absolute expiry
NoToken == [entitlement_id |-> 0, expiry |-> 0]
TokenLive(k) == kvTok[k].entitlement_id # 0 /\ now < kvTok[k].expiry
MarkerLive(u, o, d) == \E m \in kvMark : m.user_id = u /\ m.offer_id = o /\ m.day = d /\ now < m.expiry

\* a counter key of the rate limiter; count = 0 is the absent key and
\* expiry = NoExpiry a key without a time to live
NoExpiry == 0 - 1
NoCounter == [day |-> 0, count |-> 0, expiry |-> 0]
CounterLive(c, t) == c.count > 0 /\ (c.expiry = NoExpiry \/ t < c.expiry)
\* GET limit:velocity:<user>
VelocityCount(u) == IF CounterLive(kvVel[u], now) THEN kvVel[u].count ELSE 0
\* GET limit:daily:<user>:<date>
DailyCount(u, d) ==
    IF CounterLive(kvDaily[u], now) /\ kvDaily[u].day = d THEN kvDaily[u].count ELSE 0

\* ----------------------------------------------------------- requests
Idle == [user_id |-> "", offer_id |-> "", ent |-> 0, tok |-> 0, t |-> 0,
         bill |-> 0, final |-> NULL, n |-> 0, red |-> 0, limit |-> 0]

InFlight(labels) == Cardinality({p \in Procs : pc[p] \in labels})

\* the state after start-up, with the catalogue cat
Start(cat) ==
    /\ now = StartTime
    /\ ticks = 0
    /\ ents = <<>>
    /\ reds = <<>>
    /\ offers \in [OfferIds -> cat]
    /\ kvTok = [k \in 1..MaxTok |-> NoToken]
    /\ kvMark = {}
    /\ events = {}
    /\ pc = [p \in Procs |-> "idle"]
    /\ loc = [p \in Procs |-> Idle]
    /\ nextTok = 1
    /\ issued = [k \in 1..MaxTok |-> NULL]
    /\ found = {}
    /\ passes = [e \in 1..MaxEnt |-> 0]
    /\ claimDone = {}
    /\ lost = {}
    /\ kvVel = [u \in Users |-> NoCounter]
    /\ kvDaily = [u \in Users |-> NoCounter]
    /\ admitted = [u \in Users |-> [n |-> 0, since |-> 0]]
    /\ answer = [p \in Procs |-> ""]

Init == Start({OfferRow("percentage")})

InitTimed == Start(OfferConfigs)

\* the handler of p returns (out names the response)
Return(p, out) ==
    /\ pc' = [pc EXCEPT ![p] = "idle"]
    /\ loc' = [loc EXCEPT ![p] = Idle]

Goto(p, label, l) ==
    /\ pc' = [pc EXCEPT ![p] = label]
    /\ loc' = [loc EXCEPT ![p] = l]

\* an emitter that lets the failure of its insert reach the caller
_log_analytics_event_Reraises(raised) == IF raised THEN "raised" ELSE "inserted"

\* _log_analytics_event: the insert into analytics_events inside
\* try / except Exception; the emitter returns normally either way
_log_analytics_event(raised) == IF raised THEN "logged_error" ELSE "inserted"

\* the response of an operation whose last call is the emitter
AfterAnalytics(outcome) == IF outcome = "raised" THEN "INTERNAL_ERROR" ELSE "OK"

\* the emitter's effect: the event row, or the record of the lost event
\* together with the response the operation went on to give
LogEvent(type, e, outcome) ==
    /\ events' = IF outcome = "inserted"
                 THEN events \cup {[event_type |-> type, entitlement_id |-> e]}
                 ELSE events
    /\ lost' = IF outcome = "inserted" THEN lost
               ELSE lost \cup {[event_type |-> type, entitlement_id |-> e,
                                 result |-> AfterAnalytics(outcome)]}


\* ------------------------------------------------------------- Claim
ClaimLabels == {"claim_count", "claim_offer", "claim_insert"}

\* claim_entitlement, first call of _check_daily_limit: the marker lookup
ClaimStartUpTo(p, u, o, max) ==
    /\ pc[p] = "idle"
    /\ IF MarkerLive(u, o, Day(now))
       THEN Return(p, "DAILY_LIMIT")
       ELSE /\ Len(ents) + InFlight(ClaimLabels) < max
            /\ Goto(p, "claim_count", [Idle EXCEPT !.user_id = u, !.offer_id = o])
    /\ UNCHANGED <<now, ticks, ents, reds, offers, kvTok, kvMark, events,
                   nextTok, issued, found, passes, claimDone, lost, limVars>>

\* _check_daily_limit, the query on the entitlements table
ClaimCount(p) ==
    /\ pc[p] = "claim_count"
    /\ IF Cardinality(DailyRows(loc[p].user_id, loc[p].offer_id, now)) < MAX_DAILY_CLAIMS_PER_OFFER
       THEN Goto(p, "claim_offer", loc[p])
       ELSE Return(p, "DAILY_LIMIT")
    /\ UNCHANGED <<now, ticks, ents, reds, offers, kvTok, kvMark, events,
                   nextTok, issued, found, passes, claimDone, lost, limVars>>

\* _get_offer and the eligibility checks; now is taken here
ClaimOffer(p) ==
    /\ pc[p] = "claim_offer"
    /\ LET offer == offers[loc[p].offer_id]
           verdict == OfferEligibility(offer, now)
       IN IF verdict = "OK"
          THEN Goto(p, "claim_insert", [loc[p] EXCEPT !.t = now, !.n = offer.total_claims])
          ELSE Return(p, verdict)
    /\ UNCHANGED <<now, ticks, ents, reds, offers, kvTok, kvMark, events,
                   nextTok, issued, found, passes, claimDone, lost, limVars>>

NewEntitlement(u, o, t) ==
    [user_id |-> u, offer_id |-> o, state |-> "active",
     claimed_at |-> t, expires_at |-> EndOfDay(Day(t)),
     used_at |-> NULL, voided_at |-> NULL]

\* an insert into a table without the daily unique index
InsertEntitlement_NoIndex(rows, row) == Append(rows, row)

\* the insert into entitlements; the unique index rejects a duplicate
InsertEntitlement(rows, row) ==
    IF IndexViolated(Append(rows, row)) THEN rows ELSE Append(rows, row)

ClaimInsert(p) ==
    /\ pc[p] = "claim_insert"
    /\ LET row == NewEntitlement(loc[p].user_id, loc[p].offer_id, loc[p].t)
           rows == InsertEntitlement(ents, row)
       IN IF rows = ents
          THEN /\ Return(p, "INTERNAL_ERROR")
               /\ ents' = ents
          ELSE /\ ents' = rows
               /\ Goto(p, "claim_counter", [loc[p] EXCEPT !.ent = Len(rows)])
    /\ UNCHANGED <<now, ticks, reds, offers, kvTok, kvMark, events,
                   nextTok, issued, found, passes, claimDone, lost, limVars>>

\* offers.update(total_claims = the value read + 1)
ClaimCounter(p) ==
    /\ pc[p] = "claim_counter"
    /\ offers' = [offers EXCEPT ![loc[p].offer_id].total_claims = loc[p].n + 1]
    /\ Goto(p, "claim_mark", loc[p])
    /\ UNCHANGED <<now, ticks, ents, reds, kvTok, kvMark, events,
                   nextTok, issued, found, passes, claimDone, lost, limVars>>

ClaimStart(p, u, o) == ClaimStartUpTo(p, u, o, MaxEnt)

\* a marker stored with the proof-token TTL instead of the time to midnight
DailyMarker_TokenTtl(u, o, t) ==
    [user_id |-> u, offer_id |-> o, day |-> Day(t),
     expiry |-> t + QR_PROOF_TOKEN_TTL_SECONDS]

\* _mark_daily_claim: setex(key of today, seconds until midnight, "1")
DailyMarker(u, o, t) ==
    [user_id |-> u, offer_id |-> o, day |-> Day(t),
     expiry |-> t + (StartOfDay(Day(t) + 1) - t)]

SetMarker(marks, m) ==
    {x \in marks : ~(x.user_id = m.user_id /\ x.offer_id = m.offer_id /\ x.day = m.day)}
        \cup {m}

\* _mark_daily_claim, _log_analytics_event (raised: its insert fails) and
\* the response
ClaimMark(p, raised) ==
    /\ pc[p] = "claim_mark"
    /\ kvMark' = SetMarker(kvMark, DailyMarker(loc[p].user_id, loc[p].offer_id, now))
    /\ LET outcome == _log_analytics_event(raised)
       IN /\ LogEvent("offer_claim", loc[p].ent, outcome)
          /\ claimDone' = IF AfterAnalytics(outcome) = "OK"
                          THEN claimDone \cup {loc[p].ent} ELSE claimDone
          /\ Return(p, AfterAnalytics(outcome))
    /\ UNCHANGED <<now, ticks, ents, reds, offers, kvTok,
                   nextTok, issued, found, passes, limVars>>


\* ------------------------------------------------------------- Prove
\* generate_proof_token up to the state-machine check
ProveLoad(p, e, u) ==
    /\ pc[p] = "idle"
    /\ IF e \notin EntIds THEN Return(p, "NOT_FOUND")
       ELSE IF ents[e].user_id # u THEN Return(p, "FORBIDDEN")
       ELSE IF can_generate_qr(ents[e].state, ents[e].expires_at, now) # "OK"
       THEN Return(p, can_generate_qr(ents[e].state, ents[e].expires_at, now))
       ELSE /\ nextTok + InFlight({"prove_store"}) <= MaxTok
            /\ Goto(p, "prove_store", [Idle EXCEPT !.ent = e, !.user_id = u])
    /\ UNCHANGED <<now, ticks, ents, reds, offers, kvTok, kvMark, events,
                   nextTok, issued, found, passes, claimDone, lost, limVars>>

\* a token stored with the TTL in minutes instead of seconds
TokenRecord_Minutes(e, t) ==
    [entitlement_id |-> e, expiry |-> t + QR_PROOF_TOKEN_TTL_SECONDS * 60]

\* the record setex stores under a fresh token at time t
TokenRecord(e, t) == [entitlement_id |-> e, expiry |-> t + QR_PROOF_TOKEN_TTL_SECONDS]

\* a Prove that also moves the entitlement on to PENDING_CONFIRMATION
ProveStore_MarksPending(p) ==
    /\ pc[p] = "prove_store"
    /\ kvTok' = [kvTok EXCEPT ![nextTok] = TokenRecord(loc[p].ent, now)]
    /\ nextTok' = nextTok + 1
    /\ issued' = [issued EXCEPT ![nextTok] = Some(now)]
    /\ ents' = [ents EXCEPT ![loc[p].ent].state = "pending_confirmation"]
    /\ Return(p, "OK")
    /\ UNCHANGED <<now, ticks, reds, offers, kvMark, events,
                   found, passes, claimDone, lost, limVars>>

\* secrets.token_urlsafe, setex of the token record and the response
ProveStore(p) ==
    /\ pc[p] = "prove_store"
    /\ kvTok' = [kvTok EXCEPT ![nextTok] = TokenRecord(loc[p].ent, now)]
    /\ nextTok' = nextTok + 1
    /\ issued' = [issued EXCEPT ![nextTok] = Some(now)]
    /\ Return(p, "OK")
    /\ UNCHANGED <<now, ticks, ents, reds, offers, kvMark, events,
                   found, passes, claimDone, lost, limVars>>

\* ---------------------------------------------------------- Validate
\* validate_proof_token: redis.get of the token key
\* fails: the key-value store raises, the endpoint answers FAIL
ValidateGet(p, k, fails) ==
    /\ pc[p] = "idle"
    /\ IF fails
       THEN /\ found' = found
            /\ Return(p, "FAIL_ERROR")
       ELSE IF TokenLive(k)
       THEN /\ found' = found \cup {k}
            /\ Goto(p, "validate_load", [Idle EXCEPT !.tok = k, !.ent = kvTok[k].entitlement_id])
       ELSE /\ found' = found
            /\ Return(p, "FAIL_INVALID_OR_EXPIRED")
    /\ UNCHANGED <<now, ticks, ents, reds, offers, kvTok, kvMark, events,
                   nextTok, issued, passes, claimDone, lost, limVars>>

\* _get_entitlement, can_validate and the expiry test
\* fails: the store raises, the endpoint answers FAIL
ValidateLoad(p, fails) ==
    /\ pc[p] = "validate_load"
    /\ LET e == loc[p].ent
       IN IF fails THEN Return(p, "FAIL_ERROR")
          ELSE IF e \notin EntIds THEN Return(p, "FAIL_NOT_FOUND")
          ELSE IF ~can_validate(ents[e].state) THEN Return(p, "FAIL_STATE")
          ELSE IF now >= ents[e].expires_at THEN Return(p, "FAIL_EXPIRED")
          ELSE Goto(p, "validate_update", loc[p])
    /\ UNCHANGED <<now, ticks, ents, reds, offers, kvTok, kvMark, events,
                   nextTok, issued, found, passes, claimDone, lost, limVars>>

\* an UPDATE of one entitlement row by id; the statement fails, and
\* changes nothing, when the new row would violate the unique index
UpdateRejected(rows, e, row) == IndexViolated([rows EXCEPT ![e] = row])

UpdateEntitlement(rows, e, row) ==
    IF UpdateRejected(rows, e, row) THEN rows ELSE [rows EXCEPT ![e] = row]

\* the row validate_proof_token writes
MarkPending(row) == [row EXCEPT !.state = "pending_confirmation"]

\* the display reads (_get_offer, _get_merchant, _get_user), the update
\* .eq('id', entitlement_id), then the response built from the rows read.
\* fails: the store raises in a read or in the update; missing: the read of
\* the merchant or of the user row returns None, so that building the
\* response (merchant['name'], user.get) raises after the update.  Every
\* exception is answered FAIL by the endpoint.
ValidateUpdate(p, fails, missing) ==
    /\ pc[p] = "validate_update"
    /\ LET e == loc[p].ent
           row == MarkPending(ents[e])
           rows == UpdateEntitlement(ents, e, row)
       IN IF fails \/ UpdateRejected(ents, e, row)
          THEN /\ ents' = ents
               /\ passes' = passes
               /\ Return(p, "FAIL_ERROR")
          ELSE IF missing
          THEN /\ ents' = rows
               /\ passes' = passes
               /\ Return(p, "FAIL_ERROR")
          ELSE /\ ents' = rows
               /\ passes' = [passes EXCEPT ![e] = @ + 1]
               /\ Return(p, "PASS")
    /\ UNCHANGED <<now, ticks, reds, offers, kvTok, kvMark, events,
                   nextTok, issued, found, claimDone, lost, limVars>>

\* ----------------------------------------------------------- Confirm
\* confirm_redemption: _get_entitlement and can_confirm
ConfirmLoad(p, e, bill, final) ==
    /\ pc[p] = "idle"
    /\ IF e \notin EntIds THEN Return(p, "NOT_FOUND")
       ELSE IF ~can_confirm(ents[e].state) THEN Return(p, "INVALID_STATE")
       ELSE /\ Len(reds) + InFlight({"confirm_insert"}) < MaxRed
            /\ Goto(p, "confirm_insert", [Idle EXCEPT !.ent = e, !.bill = bill, !.final = final])
    /\ UNCHANGED <<now, ticks, ents, reds, offers, kvTok, kvMark, events,
                   nextTok, issued, found, passes, claimDone, lost, limVars>>

\* the redemption row confirm_redemption inserts at time t
RedemptionRow(e, offer, bill, final, t) ==
    LET sv == _calculate_savings(offer, bill, final)
    IN [entitlement_id |-> e,
        total_bill_amount |-> ToNumeric2(bill),
        discount_amount |-> ToNumeric2(sv[1]),
        final_amount |-> ToNumeric2(sv[2]),
        offer_type |-> offer.offer_type,
        redeemed_at |-> t, is_voided |-> FALSE, voided_at |-> NULL]

\* _get_offer, _calculate_savings and the insert into redemptions
ConfirmInsert(p) ==
    /\ pc[p] = "confirm_insert"
    /\ LET e == loc[p].ent
       IN reds' = Append(reds, RedemptionRow(e, offers[ents[e].offer_id],
                                             loc[p].bill, loc[p].final, now))
    /\ Goto(p, "confirm_update", [loc[p] EXCEPT !.t = now, !.red = Len(reds) + 1])
    /\ UNCHANGED <<now, ticks, ents, offers, kvTok, kvMark, events,
                   nextTok, issued, found, passes, claimDone, lost, limVars>>

\* the row confirm_redemption writes
MarkUsed(row, t) == [row EXCEPT !.state = "used", !.used_at = Some(t)]

\* the update of the entitlement, _log_analytics_event (raised: its insert
\* fails) and the response
ConfirmUpdate(p, raised) ==
    /\ pc[p] = "confirm_update"
    /\ LET e == loc[p].ent
           row == MarkUsed(ents[e], loc[p].t)
           rows == UpdateEntitlement(ents, e, row)
           outcome == _log_analytics_event(raised)
       IN IF ~UpdateRejected(ents, e, row)
          THEN /\ ents' = rows
               /\ LogEvent("redemption_confirmed", e, outcome)
               /\ Return(p, AfterAnalytics(outcome))
          ELSE /\ ents' = ents
               /\ events' = events
               /\ lost' = lost
               /\ Return(p, "INTERNAL_ERROR")
    /\ UNCHANGED <<now, ticks, reds, offers, kvTok, kvMark,
                   nextTok, issued, found, passes, claimDone, limVars>>


\* -------------------------------------------------------------- Void
\* void_redemption: _get_entitlement, can_void and the same-day test
VoidVerdict(row, t) ==
    IF ~IsSet(row.used_at) THEN "NOT_USED"
    ELSE IF can_void(row.state, Val(row.used_at), t) # "OK"
    THEN can_void(row.state, Val(row.used_at), t)
    ELSE IF Day(t) # Day(Val(row.used_at)) THEN "DIFFERENT_DAY"
    ELSE "OK"

VoidLoad(p, e) ==
    /\ pc[p] = "idle"
    /\ IF e \notin EntIds THEN Return(p, "NOT_FOUND")
       ELSE IF VoidVerdict(ents[e], now) # "OK"
       THEN Return(p, VoidVerdict(ents[e], now))
       ELSE Goto(p, "void_select", [Idle EXCEPT !.ent = e, !.t = now])
    /\ UNCHANGED <<now, ticks, ents, reds, offers, kvTok, kvMark, events,
                   nextTok, issued, found, passes, claimDone, lost, limVars>>

\* the rows select('*').eq('entitlement_id', e).eq('is_voided', False) returns
LiveRedemptions(e) ==
    {r \in 1..Len(reds) : reds[r].entitlement_id = e /\ ~reds[r].is_voided}

\* the select has no ORDER BY: data[0] is any of the matching rows
VoidSelect(p) ==
    /\ pc[p] = "void_select"
    /\ IF LiveRedemptions(loc[p].ent) = {}
       THEN Return(p, "NOT_FOUND")
       ELSE \E r \in LiveRedemptions(loc[p].ent) :
                Goto(p, "void_redemption", [loc[p] EXCEPT !.red = r])
    /\ UNCHANGED <<now, ticks, ents, reds, offers, kvTok, kvMark, events,
                   nextTok, issued, found, passes, claimDone, lost, limVars>>

VoidRedemptionRow(p) ==
    /\ pc[p] = "void_redemption"
    /\ reds' = [reds EXCEPT ![loc[p].red].is_voided = TRUE,
                            ![loc[p].red].voided_at = Some(loc[p].t)]
    /\ Goto(p, "void_entitlement", loc[p])
    /\ UNCHANGED <<now, ticks, ents, offers, kvTok, kvMark, events,
                   nextTok, issued, found, passes, claimDone, lost, limVars>>

\* the row void_redemption writes
MarkVoided(row, t) == [row EXCEPT !.state = "voided", !.voided_at = Some(t)]

\* the update of the entitlement, _log_analytics_event (raised: its insert
\* fails) and the response
VoidEntitlementRow(p, raised) ==
    /\ pc[p] = "void_entitlement"
    /\ ents' = UpdateEntitlement(ents, loc[p].ent, MarkVoided(ents[loc[p].ent], loc[p].t))
    /\ LET outcome == _log_analytics_event(raised)
       IN /\ LogEvent("redemption_voided", loc[p].ent, outcome)
          /\ Return(p, AfterAnalytics(outcome))
    /\ UNCHANGED <<now, ticks, reds, offers, kvTok, kvMark,
                   nextTok, issued, found, passes, claimDone, limVars>>

\* ------------------------------------------------------------- Sweep
\* expire_old_entitlements(): one UPDATE statement
Expirable(row, t) ==
    row.state \in {"active", "pending_confirmation"} /\ row.expires_at < t

\* the rows after UPDATE entitlements SET state = 'expired' WHERE ... at time t
SweepRows(rows, t) ==
    [i \in 1..Len(rows) |->
        IF Expirable(rows[i], t) THEN [rows[i] EXCEPT !.state = "expired"]
        ELSE rows[i]]

Sweep ==
    /\ ents' = SweepRows(ents, now)
    /\ UNCHANGED <<now, ticks, reds, offers, kvTok, kvMark, events,
                   pc, loc, nextTok, issued, found, passes, claimDone, lost, limVars>>

\* ------------------------------------------------------ rate limiter
\* the daily limits a caller of check_limits passes: a small one from the
\* settings, and none (the default DAILY_LIMIT applies)
DailyLimits == {VELOCITY_LIMIT + 2, DAILY_LIMIT}

\* check_limits returns, or raises the HTTPException 429
Answer(p, out) == Return(p, out) /\ answer' = [answer EXCEPT ![p] = out]

Continue(p, label, l) == Goto(p, label, l) /\ answer' = answer

\* check_limits: daily_limit = daily_limit or cls.DAILY_LIMIT
CheckLimits(p, u, limit) ==
    /\ pc[p] = "idle"
    /\ Goto(p, "vel_get", [Idle EXCEPT !.user_id = u, !.limit = limit])
    /\ answer' = [answer EXCEPT ![p] = ""]
    /\ UNCHANGED <<now, ticks, ents, reds, offers, kvTok, kvMark, events,
                   nextTok, issued, found, passes, claimDone, lost, kvVel, kvDaily, admitted>>

\* a velocity check whose handler turns the failure into the rejection
VelocityError_Rejects(p) == Answer(p, "429")

\* _check_velocity_limit, except Exception: log and pass; check_limits goes
\* on to the daily quota
VelocityError(p) == Continue(p, "daily_get", loc[p])

\* _check_daily_quota, except Exception: log and pass; check_limits returns
DailyError(p) == Answer(p, "OK")

\* one more call let through by the velocity check at time t: the first of
\* a new key, or a further one within VELOCITY_WINDOW of the key's creation
Admit(a, fresh, t) ==
    IF fresh THEN [n |-> 1, since |-> t]
    ELSE IF t < a.since + VELOCITY_WINDOW THEN [a EXCEPT !.n = @ + 1]
    ELSE a

\* redis_client.get(limit:velocity:<user>) and the test of the count
CheckVelocityGet(p, fails) ==
    /\ pc[p] = "vel_get"
    /\ IF fails THEN VelocityError(p)
       ELSE IF VelocityCount(loc[p].user_id) = 0 THEN Continue(p, "vel_setex", loc[p])
       ELSE IF VelocityCount(loc[p].user_id) >= VELOCITY_LIMIT THEN Answer(p, "429")
       ELSE Continue(p, "vel_incr", loc[p])
    /\ UNCHANGED <<now, ticks, ents, reds, offers, kvTok, kvMark, events,
                   nextTok, issued, found, passes, claimDone, lost, kvVel, kvDaily, admitted>>

\* redis_client.setex(key, VELOCITY_WINDOW, "1")
CheckVelocitySetex(p, fails) ==
    /\ pc[p] = "vel_setex"
    /\ LET u == loc[p].user_id
       IN IF fails
          THEN VelocityError(p) /\ UNCHANGED <<kvVel, admitted>>
          ELSE /\ kvVel' = [kvVel EXCEPT ![u] =
                                [day |-> 0, count |-> 1, expiry |-> now + VELOCITY_WINDOW]]
               /\ admitted' = [admitted EXCEPT ![u] = Admit(@, VelocityCount(u) = 0, now)]
               /\ Continue(p, "daily_get", loc[p])
    /\ UNCHANGED <<now, ticks, ents, reds, offers, kvTok, kvMark, events,
                   nextTok, issued, found, passes, claimDone, lost, kvDaily>>

\* redis_client.incr(key): adds one and keeps the time to live; on an absent
\* key it creates the key with value 1 and no time to live
CheckVelocityIncr(p, fails) ==
    /\ pc[p] = "vel_incr"
    /\ LET u == loc[p].user_id
       IN IF fails
          THEN VelocityError(p) /\ UNCHANGED <<kvVel, admitted>>
          ELSE /\ kvVel' = [kvVel EXCEPT ![u] =
                                IF VelocityCount(u) = 0
                                THEN [day |-> 0, count |-> 1, expiry |-> NoExpiry]
                                ELSE [@ EXCEPT !.count = @ + 1]]
               /\ admitted' = [admitted EXCEPT ![u] = Admit(@, VelocityCount(u) = 0, now)]
               /\ Continue(p, "daily_get", loc[p])
    /\ UNCHANGED <<now, ticks, ents, reds, offers, kvTok, kvMark, events,
                   nextTok, issued, found, passes, claimDone, lost, kvDaily>>

\* the key of today, redis_client.get(limit:daily:<user>:<date>) and the
\* test of the count
CheckDailyGet(p, fails) ==
    /\ pc[p] = "daily_get"
    /\ IF fails THEN DailyError(p)
       ELSE IF DailyCount(loc[p].user_id, Day(now)) = 0
       THEN Continue(p, "daily_setex", [loc[p] EXCEPT !.t = Day(now)])
       ELSE IF DailyCount(loc[p].user_id, Day(now)) >= loc[p].limit
       THEN Answer(p, "429")
       ELSE Continue(p, "daily_incr", [loc[p] EXCEPT !.t = Day(now)])
    /\ UNCHANGED <<now, ticks, ents, reds, offers, kvTok, kvMark, events,
                   nextTok, issued, found, passes, claimDone, lost,
                   kvVel, kvDaily, admitted>>

\* redis_client.setex(key, DAILY_WINDOW, "1")
CheckDailySetex(p, fails) ==
    /\ pc[p] = "daily_setex"
    /\ IF fails
       THEN DailyError(p) /\ kvDaily' = kvDaily
       ELSE /\ kvDaily' = [kvDaily EXCEPT ![loc[p].user_id] =
                               [day |-> loc[p].t, count |-> 1, expiry |-> now + DAILY_WINDOW]]
            /\ Answer(p, "OK")
    /\ UNCHANGED <<now, ticks, ents, reds, offers, kvTok, kvMark, events,
                   nextTok, issued, found, passes, claimDone, lost, kvVel, admitted>>

\* redis_client.incr(key)
CheckDailyIncr(p, fails) ==
    /\ pc[p] = "daily_incr"
    /\ LET u == loc[p].user_id
       IN IF fails
          THEN DailyError(p) /\ kvDaily' = kvDaily
          ELSE /\ kvDaily' = [kvDaily EXCEPT ![u] =
                                  IF DailyCount(u, loc[p].t) = 0
                                  THEN [day |-> loc[p].t, count |-> 1, expiry |-> NoExpiry]
                                  ELSE [@ EXCEPT !.count = @ + 1]]
               /\ Answer(p, "OK")
    /\ UNCHANGED <<now, ticks, ents, reds, offers, kvTok, kvMark, events,
                   nextTok, issued, found, passes, claimDone, lost, kvVel, admitted>>

\* check_limits, served by the request slots P over a key-value store
\* whose calls have the outcomes F
Limiter(P, F) ==
    \/ \E p \in P, u \in Users, l \in DailyLimits : CheckLimits(p, u, l)
    \/ \E p \in P, fails \in F : CheckVelocityGet(p, fails)
    \/ \E p \in P, fails \in F : CheckVelocitySetex(p, fails)
    \/ \E p \in P, fails \in F : CheckVelocityIncr(p, fails)
    \/ \E p \in P, fails \in F : CheckDailyGet(p, fails)
    \/ \E p \in P, fails \in F : CheckDailySetex(p, fails)
    \/ \E p \in P, fails \in F : CheckDailyIncr(p, fails)

\* ------------------------------------------------------------- clock
\* time passes; the key-value store drops the keys whose expiry is reached
Tick(d, max) ==
    /\ ticks < max
    /\ ticks' = ticks + 1
    /\ now' = now + d
    /\ kvTok' = [k \in DOMAIN kvTok |->
                    IF kvTok[k].entitlement_id # 0 /\ kvTok[k].expiry <= now + d
                    THEN NoToken ELSE kvTok[k]]
    /\ kvMark' = {m \in kvMark : m.expiry > now + d}
    /\ kvVel' = [u \in Users |->
                    IF CounterLive(kvVel[u], now + d) THEN kvVel[u] ELSE NoCounter]
    /\ kvDaily' = [u \in Users |->
                    IF CounterLive(kvDaily[u], now + d) THEN kvDaily[u] ELSE NoCounter]
    /\ UNCHANGED <<ents, reds, offers, events, pc, loc,
                   nextTok, issued, found, passes, claimDone, lost, admitted, answer>>

\* the clock step of the concurrent specification: a day
ConcSteps == {SecondsPerDay}

OptFinals == {NULL} \cup {Some(f) : f \in Finals}

\* the handlers, served by the request slots P; F holds the outcomes the
\* infrastructure may have: FALSE the call works, TRUE it fails
Handlers(P, F) ==
    \/ \E p \in P, u \in Users, o \in OfferIds : ClaimStart(p, u, o)
    \/ \E p \in P : ClaimCount(p)
    \/ \E p \in P : ClaimOffer(p)
    \/ \E p \in P : ClaimInsert(p)
    \/ \E p \in P : ClaimCounter(p)
    \/ \E p \in P, raised \in F : ClaimMark(p, raised)
    \/ \E p \in P, e \in 1..MaxEnt, u \in Callers : ProveLoad(p, e, u)
    \/ \E p \in P : ProveStore(p)
    \/ \E p \in P, k \in 1..MaxTok, fails \in F : ValidateGet(p, k, fails)
    \/ \E p \in P, fails \in F : ValidateLoad(p, fails)
    \/ \E p \in P, fails \in F, missing \in F : ValidateUpdate(p, fails, missing)
    \/ \E p \in P, e \in 1..MaxEnt, b \in Bills, f \in OptFinals : ConfirmLoad(p, e, b, f)
    \/ \E p \in P : ConfirmInsert(p)
    \/ \E p \in P, raised \in F : ConfirmUpdate(p, raised)
    \/ \E p \in P, e \in 1..MaxEnt : VoidLoad(p, e)
    \/ \E p \in P : VoidSelect(p)
    \/ \E p \in P : VoidRedemptionRow(p)
    \/ \E p \in P, raised \in F : VoidEntitlementRow(p, raised)

\* concurrent requests, the sweep, and a clock that moves at most ConcTicks times
Next ==
    \/ Handlers(Procs, {FALSE})
    \/ Sweep
    \/ \E d \in ConcSteps : Tick(d, ConcTicks)

Spec == Init /\ [][Next]_vars

\* one request at a time, the sweep and the clock between any two of its calls
NextTimed ==
    \/ Handlers({"p1"}, {FALSE})
    \/ Sweep
    \/ \E d \in Steps : Tick(d, MaxTicks)

SpecTimed == InitTimed /\ [][NextTimed]_vars

\* one request at a time over an infrastructure whose calls may fail
NextFaults ==
    \/ Handlers({"p1"}, BOOLEAN)
    \/ Sweep
    \/ \E d \in ConcSteps : Tick(d, ConcTicks)

SpecFaults == Init /\ [][NextFaults]_vars

\* further amounts a merchant may enter: a bill whose percentage is not a
\* whole number of cents (50.03), a final amount above the bill (60.00)
MoreBills == {500300}
MoreFinals == {600000}

\* one request at a time, with the further amounts at Confirm
NextMoney ==
    \/ Handlers({"p1"}, {FALSE})
    \/ \E e \in 1..MaxEnt, b \in Bills \cup MoreBills,
          f \in {NULL} \cup {Some(x) : x \in MoreFinals} : ConfirmLoad("p1", e, b, f)
    \/ Sweep
    \/ \E d \in ConcSteps : Tick(d, ConcTicks)

SpecMoney == InitTimed /\ [][NextMoney]_vars

\* concurrent calls of check_limits, and a clock that moves at most
\* ConcTicks times
\* several students claiming the same offer: the claim handler alone, up to
\* MaxClaims entitlements
MaxClaims == 3
Claimants == Users \cup {"u2", "u3"}

NextClaims ==
    \/ \E p \in Procs, u \in Claimants, o \in OfferIds : ClaimStartUpTo(p, u, o, MaxClaims)
    \/ \E p \in Procs : ClaimCount(p)
    \/ \E p \in Procs : ClaimOffer(p)
    \/ \E p \in Procs : ClaimInsert(p)
    \/ \E p \in Procs : ClaimCounter(p)
    \/ \E p \in Procs : ClaimMark(p, FALSE)
    \/ \E d \in ConcSteps : Tick(d, ConcTicks)

SpecClaims == Init /\ [][NextClaims]_vars

\* the handlers of one request slot with the clock and an expiry job that
\* is run again and again: time does not stop while the clock can advance,
\* and a sweep that has rows to expire is eventually run
NextSettle ==
    \/ Handlers({"p1"}, {FALSE})
    \/ Sweep
    \/ \E d \in ConcSteps : Tick(d, ConcTicks)

SpecSettle ==
    /\ Init /\ [][NextSettle]_vars
    /\ WF_vars(Sweep)
    /\ WF_vars(\E d \in ConcSteps : Tick(d, ConcTicks))

NextLimiter ==
    \/ Limiter(Procs, {FALSE})
    \/ \E d \in ConcSteps : Tick(d, ConcTicks)

SpecLimiter == Init /\ [][NextLimiter]_vars

\* one call of check_limits at a time over a key-value store that may fail
NextLimiterFaults ==
    \/ Limiter({"p1"}, BOOLEAN)
    \/ \E d \in ConcSteps : Tick(d, ConcTicks)

SpecLimiterFaults == Init /\ [][NextLimiterFaults]_vars


\* =================================================================
\* Properties
\* =================================================================

SameKey(i, u, o, d) ==
    ents[i].user_id = u /\ ents[i].offer_id = o /\ Day(ents[i].claimed_at) = d

\* C1 - daily uniqueness: for every user, offer and calendar day of
\* claimed_at the store holds at most one entitlement that is not VOIDED
C1_DailyUniqueness ==
    \A i, j \in EntIds :
        (/\ i # j
         /\ SameKey(j, ents[i].user_id, ents[i].offer_id, Day(ents[i].claimed_at))
         /\ ents[i].state # "voided")
        => ents[j].state = "voided"

\* a Claim has passed the daily-limit check and stands before its insert
\* while another Claim's row for the same user, offer and day is in the store
C1_Witness ==
    \E p \in Procs : \E i \in EntIds :
        /\ pc[p] = "claim_insert"
        /\ SameKey(i, loc[p].user_id, loc[p].offer_id, Day(loc[p].t))
        /\ ents[i].state # "voided"

\* C2 - no double redemption: at most one redemption row is ever inserted
\* for an entitlement (rows are never deleted)
C2_NoDoubleRedemption ==
    \A e \in EntIds :
        Cardinality({r \in 1..Len(reds) : reds[r].entitlement_id = e}) <= 1

\* C3 - single winner: among the Validate calls for the tokens of one
\* entitlement at most one returns PASS
C3_SingleWinner == \A e \in 1..MaxEnt : passes[e] <= 1

\* C4 - every change of a stored state is an arrow of the lifecycle DAG,
\* so VOIDED and EXPIRED are never left
LegalArrows ==
    {<<"active", "pending_confirmation">>, <<"pending_confirmation", "used">>,
     <<"pending_confirmation", "active">>, <<"used", "voided">>,
     <<"active", "expired">>, <<"pending_confirmation", "expired">>}

C4_OnlyLegalTransitions ==
    [][\A i \in EntIds :
          \/ ents'[i].state = ents[i].state
          \/ <<ents[i].state, ents'[i].state>> \in LegalArrows]_vars

\* C5 - used_at is set iff the state is USED or VOIDED, and is not in the future
C5_UsedAtIffUsed ==
    \A i \in EntIds :
        /\ IsSet(ents[i].used_at) <=> ents[i].state \in {"used", "voided"}
        /\ IsSet(ents[i].used_at) => Val(ents[i].used_at) <= now

\* C6 - every redemption row balances: final + discount = total bill (cents)
C6_RedemptionBalances ==
    \A r \in 1..Len(reds) :
        reds[r].final_amount + reds[r].discount_amount = reds[r].total_bill_amount

\* u holds an entitlement for o that a completed Claim created today and
\* that is not VOIDED
HeldToday(u, o) ==
    \E e \in claimDone : SameKey(e, u, o, Day(now)) /\ ents[e].state # "voided"

\* C7 - a Claim(u, o) issued while u holds today's entitlement for o is
\* rejected at the daily-limit check: it does not go on to the store, it
\* inserts no entitlement and leaves total_claims alone
C7_SecondClaimRejected ==
    [][\A p \in Procs :
          (pc[p] = "idle" /\ pc'[p] \in {"claim_count", "claim_offer", "claim_insert"})
          => /\ ~HeldToday(loc'[p].user_id, loc'[p].offer_id)
             /\ ents' = ents /\ offers' = offers]_vars

\* u holds today's entitlement, its marker is in the key-value store and a
\* request slot is free for the next Claim
C7_Witness ==
    \E u \in Users, o \in OfferIds :
        /\ HeldToday(u, o)
        /\ MarkerLive(u, o, Day(now))
        /\ \E p \in Procs : pc[p] = "idle"

\* every entitlement u claimed today for o has been voided after a
\* redemption, and the offer is still eligible
VoidedToday(u, o) ==
    /\ \E e \in claimDone :
          /\ SameKey(e, u, o, Day(now))
          /\ ents[e].state = "voided" /\ IsSet(ents[e].voided_at)
    /\ \A i \in EntIds : SameKey(i, u, o, Day(now)) => ents[i].state = "voided"
    /\ \A p \in Procs : pc[p] = "idle"
    /\ OfferEligibility(offers[o], now) = "OK"

\* C8 - re-claim after void: the daily-claim marker of the first Claim does
\* not block a new Claim the same day
C8_ReclaimAfterVoid ==
    \A u \in Users, o \in OfferIds :
        VoidedToday(u, o) => ~MarkerLive(u, o, Day(now))

\* C9 - a token a Validate call has found is absent from the key-value
\* store afterwards (so a second Validate fails as invalid or expired)
C9_TokenConsumed == \A k \in found : ~TokenLive(k)

\* C10 - a token issued at time t is absent from the key-value store at
\* every time >= t + 30, so a Validate with it fails at the lookup
C10_TokenExpires ==
    \A k \in 1..MaxTok :
        (IsSet(issued[k]) /\ now >= Val(issued[k]) + 30) => ~TokenLive(k)

\* a token has been issued and its 30 seconds have passed
C10_Witness ==
    \E k \in 1..MaxTok :
        /\ IsSet(issued[k]) /\ now >= Val(issued[k]) + 30
        /\ kvTok[k] = NoToken
        /\ \E p \in Procs : pc[p] = "idle"

\* the entitlement is USED, at most two hours have passed since used_at and
\* t is on the calendar day of used_at
VoidAllowed(row, t) ==
    /\ row.state = "used"
    /\ IsSet(row.used_at)
    /\ t - Val(row.used_at) <= 2 * 60 * 60
    /\ Day(t) = Day(Val(row.used_at))

C12_ConfirmInvalidState ==
    [][\A p \in Procs :
          (pc[p] = "idle" /\ pc'[p] = "confirm_insert")
          => /\ ents[loc'[p].ent].state = "pending_confirmation"
             /\ ents' = ents /\ reds' = reds]_vars

\* an entitlement is USED with its redemption row, and a second Confirm
\* can be issued
C12_Witness ==
    \E e \in EntIds :
        /\ ents[e].state = "used"
        /\ \E r \in 1..Len(reds) : reds[r].entitlement_id = e
        /\ Len(reds) < MaxRed
        /\ \E p \in Procs : pc[p] = "idle"

\* entitlement e exists, belongs to u, is ACTIVE and has not reached expires_at
ProveAllowed(e, u) ==
    /\ e \in EntIds
    /\ ents[e].user_id = u
    /\ ents[e].state = "active"
    /\ now < ents[e].expires_at

\* C13 - Prove goes on to store a token only for an entitlement that exists,
\* is owned by the caller, is ACTIVE and not yet at expires_at; the check
\* writes nothing to the key-value store, and a token is only ever written
\* by a Prove that passed the check
C13_ProvePreconditions ==
    [][/\ \A p \in Procs :
             (pc[p] = "idle" /\ pc'[p] = "prove_store")
             => (ProveAllowed(loc'[p].ent, loc'[p].user_id) /\ kvTok' = kvTok)
       /\ (nextTok' # nextTok)
             => \E p \in Procs : pc[p] = "prove_store" /\ pc'[p] = "idle"]_vars

\* a token was issued for an entitlement that is still ACTIVE when
\* expires_at is reached, and a further Prove can be issued
C13_Witness ==
    \E k \in 1..MaxTok :
        /\ IsSet(issued[k])
        /\ nextTok <= MaxTok
        /\ \E e \in EntIds : ents[e].state = "active" /\ now >= ents[e].expires_at
        /\ \E p \in Procs : pc[p] = "idle"

\* C14 - Prove leaves the persistent store alone: neither its check nor its
\* write changes an entitlement, a redemption or an offer counter; a
\* successful Prove adds exactly one new token key to the key-value store
\* and nothing else
C14_ProveFrame ==
    [][\A p \in Procs :
          /\ ((pc[p] = "idle" /\ pc'[p] = "prove_store")
                  \/ (pc[p] = "prove_store" /\ pc'[p] = "idle"))
             => (ents' = ents /\ reds' = reds /\ offers' = offers /\ kvMark' = kvMark)
          /\ (pc[p] = "prove_store" /\ pc'[p] = "idle")
             => \E k \in 1..MaxTok :
                    /\ kvTok[k] = NoToken
                    /\ kvTok'[k].entitlement_id = loc[p].ent
                    /\ \A j \in 1..MaxTok : j # k => kvTok'[j] = kvTok[j]]_vars

\* a Prove has stored a token that is live, for an entitlement still ACTIVE
C14_Witness ==
    \E k \in 1..MaxTok :
        /\ TokenLive(k)
        /\ ents[kvTok[k].entitlement_id].state = "active"
        /\ \A p \in Procs : pc[p] = "idle"

\* the offer is active, t is within valid_from..valid_until, within the
\* daily time window when one is set, on a valid weekday when a weekday set
\* is given, and the claim cap, when set, is not reached
ClaimAllowed(offer, t) ==
    /\ offer.is_active
    /\ offer.valid_from <= t /\ t <= offer.valid_until
    /\ IsSet(offer.time_window)
          => (Val(offer.time_window)[1] <= TimeOfDay(t)
              /\ TimeOfDay(t) <= Val(offer.time_window)[2])
    /\ offer.valid_days_of_week # {} => Weekday(t) \in offer.valid_days_of_week
    /\ offer.max_total_claims # 0 => offer.total_claims < offer.max_total_claims

\* C15 - a Claim goes on to insert an entitlement only if the offer passes
\* every eligibility condition at the time of the check
C15_ClaimEligibility ==
    [][\A p \in Procs :
          (pc[p] = "claim_offer" /\ pc'[p] = "claim_insert")
          => ClaimAllowed(offers[loc[p].offer_id], now)]_vars

\* the entitlement is ACTIVE or PENDING_CONFIRMATION and t has reached expires_at
DueForExpiry(row, t) ==
    row.state \in {"active", "pending_confirmation"} /\ row.expires_at <= t

\* C16 - a Sweep run now moves to EXPIRED exactly the entitlements that are
\* ACTIVE or PENDING_CONFIRMATION with expires_at <= now and leaves every
\* other row as it is; a second Sweep at the same instant changes nothing
C16_SweepExact ==
    /\ \A i \in EntIds :
          SweepRows(ents, now)[i] =
              IF DueForExpiry(ents[i], now) THEN [ents[i] EXCEPT !.state = "expired"]
              ELSE ents[i]
    /\ SweepRows(SweepRows(ents, now), now) = SweepRows(ents, now)

\* C17 - velocity limit: of the calls of one caller the velocity check lets
\* through no more than 10 between the creation of the caller's counter key
\* and 60 seconds later, however concurrent calls interleave
C17_VelocityLimit == \A u \in Users : admitted[u].n <= 10

\* C18 - the rate limiter fails open: a call is answered 429 only by a
\* check that read a count at or above its limit; a key-value call that
\* fails never produces the rejection, the call goes on and is admitted
C18_FailOpen ==
    [][\A p \in Procs :
          /\ (pc[p] # "idle" /\ pc'[p] = "idle" /\ answer'[p] = "429")
             => \/ pc[p] = "vel_get" /\ VelocityCount(loc[p].user_id) >= VELOCITY_LIMIT
                \/ pc[p] = "daily_get"
                      /\ DailyCount(loc[p].user_id, Day(now)) >= loc[p].limit
          /\ (pc[p] \in {"vel_get", "vel_setex", "vel_incr"} /\ pc'[p] = "idle")
             => answer'[p] = "429"
          /\ (pc[p] \in {"daily_get", "daily_setex", "daily_incr"} /\ pc'[p] = "idle")
             => answer'[p] \in {"OK", "429"}]_vars

\* a call has been admitted although no counter key could be written: both
\* of its checks met a failing key-value store
C18_Witness ==
    \E p \in Procs :
        /\ answer[p] = "OK"
        /\ \A u \in Users : kvVel[u] = NoCounter /\ kvDaily[u] = NoCounter
        /\ ticks = 0

\* C19 - Validate fails closed: a Validate that does not answer PASS (the
\* key-value store or the store failed, or an internal error occurred)
\* leaves every entitlement as it was
C19_ValidateFailsClosed ==
    [][\A p \in Procs :
          (/\ pc[p] \in {"validate_load", "validate_update"}
           /\ pc'[p] = "idle"
           /\ passes' = passes)
          => ents' = ents]_vars

\* C20 - an analytics insert that raises never fails the operation: the
\* Claim, Confirm or Void it belongs to answers with its normal success
\* result and its writes to the store are kept
C20_AnalyticsNeverFails ==
    [][\A l \in lost' \ lost :
          /\ l.result = "OK"
          /\ l.entitlement_id \in EntIds
          /\ reds' = reds /\ offers' = offers
          /\ l.event_type = "offer_claim"
                => (ents' = ents /\ l.entitlement_id \in claimDone'
                    /\ MarkerLive(ents[l.entitlement_id].user_id,
                                  ents[l.entitlement_id].offer_id, Day(now))')
          /\ l.event_type = "redemption_confirmed"
                => (ents'[l.entitlement_id].state = "used"
                    /\ \E r \in 1..Len(reds) : reds[r].entitlement_id = l.entitlement_id)
          /\ l.event_type = "redemption_voided"
                => (ents'[l.entitlement_id].state = "voided"
                    /\ \E r \in 1..Len(reds) :
                          reds[r].entitlement_id = l.entitlement_id /\ reds[r].is_voided)]_vars

\* the analytics inserts of a Claim, of a Confirm and of a Void have all
\* failed
C20_Witness ==
    \A type \in {"offer_claim", "redemption_confirmed", "redemption_voided"} :
        \E l \in lost : l.event_type = type

\* the savings a Confirm that stands before its insert has computed
Savings(p) ==
    _calculate_savings(offers[ents[loc[p].ent].offer_id], loc[p].bill, loc[p].final)

\* the offer type of the entitlement a Confirm is about
ConfirmOfferType(p) == offers[ents[loc[p].ent].offer_id].offer_type

\* C21 - BOGO without a merchant-supplied final amount: the discount is
\* original_price, clamped to the bill, and final = bill - discount; no
\* BOGO redemption has a negative final amount or a discount above the bill
C21_BogoClamp ==
    /\ \A p \in Procs :
          (pc[p] = "confirm_insert" /\ ConfirmOfferType(p) = "bogo" /\ ~IsSet(loc[p].final))
          => LET price == offers[ents[loc[p].ent].offer_id].original_price
                 discount == IF price > loc[p].bill THEN loc[p].bill ELSE price
             IN Savings(p) = <<discount, loc[p].bill - discount>>
    /\ \A r \in 1..Len(reds) :
          reds[r].offer_type = "bogo"
          => (reds[r].final_amount >= 0 /\ reds[r].discount_amount <= reds[r].total_bill_amount)

\* C22 - a Confirm whose merchant-supplied final amount is above the bill
\* (discount = bill - final < 0) inserts no redemption row
C22_MerchantFinalBounded ==
    [][\A p \in Procs :
          (pc[p] = "confirm_insert" /\ pc'[p] = "confirm_update" /\ IsSet(loc[p].final))
          => loc[p].bill - Val(loc[p].final) >= 0]_vars

\* x (hundredths of a cent) rounded half-even to whole cents
RoundHalfEven(x) ==
    LET q == x \div 100
        r == x % 100
    IN IF r > 50 \/ (r = 50 /\ q % 2 = 1) THEN (q + 1) * 100 ELSE q * 100

\* C23 - percentage offer without a merchant-supplied final amount: the
\* discount is bill * p / 100 rounded half-even to whole cents, and
\* final = bill - discount
C23_PercentageRounded ==
    \A p \in Procs :
        (pc[p] = "confirm_insert" /\ ConfirmOfferType(p) = "percentage" /\ ~IsSet(loc[p].final))
        => LET pct == offers[ents[loc[p].ent].offer_id].pct
               discount == RoundHalfEven((loc[p].bill * pct) \div 100)
           IN Savings(p) = <<discount, loc[p].bill - discount>>

\* C24 - every entitlement expires at the end of the calendar day of its
\* claim, and strictly later than it was claimed, whatever the time of day
\* of the claim
C24_ExpiresAfterClaim ==
    \A i \in EntIds :
        /\ ents[i].expires_at = StartOfDay(Day(ents[i].claimed_at) + 1) - 1
        /\ ents[i].expires_at > ents[i].claimed_at

RedemptionsOf(i) ==
    {r \in DOMAIN reds : reds[r].entitlement_id = i}

\* C26 - Confirm and Void are atomic in their two store writes: in every
\* reachable state an entitlement is USED iff it has a redemption row that
\* is not voided, and VOIDED iff its redemption row is voided; no
\* PENDING_CONFIRMATION entitlement has a redemption row and no USED
\* entitlement has a voided one
C26_ConfirmVoidAtomic ==
    \A i \in EntIds :
        /\ ents[i].state = "used"
              <=> \E r \in RedemptionsOf(i) : ~reds[r].is_voided
        /\ ents[i].state = "voided"
              <=> (RedemptionsOf(i) # {} /\ \A r \in RedemptionsOf(i) : reds[r].is_voided)
        /\ ents[i].state = "pending_confirmation" => RedemptionsOf(i) = {}
        /\ ents[i].state = "used" => \A r \in RedemptionsOf(i) : ~reds[r].is_voided

\* C27 - the velocity window always re-opens: a stored velocity counter
\* carries the expiry set by the first request of its window, no later than
\* VELOCITY_WINDOW after that request, and a velocity rejection is only
\* answered within VELOCITY_WINDOW of the first request of the window
C27_WindowReopens ==
    /\ [](\A u \in Users :
            kvVel[u].count > 0
            => /\ kvVel[u].expiry # NoExpiry
               /\ kvVel[u].expiry <= admitted[u].since + VELOCITY_WINDOW)
    /\ [][\A p \in Procs :
            (pc[p] = "vel_get" /\ pc'[p] = "idle" /\ answer'[p] = "429")
            => now < admitted[loc[p].user_id].since + VELOCITY_WINDOW]_vars

\* C28 - offer.total_claims is a monotonic counter: under any interleaving
\* of concurrent successful Claims on the same offer the stored
\* total_claims never decreases
C28_TotalClaimsMonotonic ==
    [][\A o \in OfferIds : offers'[o].total_claims >= offers[o].total_claims]_vars

\* C29 - no entitlement is redeemed after it has expired: every USED or
\* VOIDED entitlement has used_at < expires_at
C29_NoRedemptionAfterExpiry ==
    \A i \in EntIds :
        ents[i].state \in {"used", "voided"}
        => IsSet(ents[i].used_at) /\ Val(ents[i].used_at) < ents[i].expires_at

Settled(i) == i \in EntIds /\ ents[i].state \in {"used", "voided", "expired"}

\* the expiry time of the entitlement has passed
Overdue(i) == i \in EntIds /\ ents[i].expires_at < now

\* once time has passed its expiry, an entitlement eventually reaches USED,
\* VOIDED or EXPIRED
C30_EventuallyReached ==
    \A i \in 1..MaxEnt : [](Overdue(i) => <>Settled(i))

\* an entitlement in USED, VOIDED or EXPIRED stays in one of them
C30_NeverReturns ==
    [][\A i \in 1..MaxEnt : Settled(i) => Settled(i)']_vars

\* C30 - every entitlement eventually settles: with time advancing and the
\* sweep run repeatedly, every entitlement eventually reaches USED, VOIDED
\* or EXPIRED and from then on never returns to ACTIVE or
\* PENDING_CONFIRMATION, under any interleaving of the handlers with Sweep
C30_EventuallySettles == C30_EventuallyReached /\ C30_NeverReturns

====
